---- MODULE Spec2Model ----
(***************************************************************************)
(* A model of the boids simulation of src/main.go: the pooled region       *)
(* quadtree (NewQuadtree, Insert, Subdivide, Query, Clear), the steering   *)
(* and movement systems, and the frame loop of run().                      *)
(*                                                                         *)
(* Numbers.  The program computes in float64.  The model computes in       *)
(* fixed point: every length (position, velocity, acceleration, rectangle  *)
(* size) is an integer count of sub-units, Sub sub-units to one world      *)
(* unit, and Sub is a power of two so that the halvings of Subdivide are   *)
(* exact, as they are in binary floating point.  The tunable parameters    *)
(* (the three factors, neighborhoodRange, maxForce, maxSpeed) are kept in  *)
(* tenths, the step of the keyboard adjustments.  A non-finite float (the  *)
(* NaN of 0/0) is a vector whose NaN field is TRUE; every comparison with  *)
(* it is false and every operation on it yields it again.                  *)
(*                                                                         *)
(* Pointers.  &movementComponents[i] is the index i+1 (1..BoidsCount); a   *)
(* nil pointer is 0.  A *Quadtree is the node record itself: every node    *)
(* is owned by exactly one place (a child link, the local qt of run, or    *)
(* the pool), so no two places ever alias one node.                        *)
(***************************************************************************)
EXTENDS Integers, Sequences, FiniteSets, TLC

(***************************************************************************)
(* Bounds of the model.                                                    *)
(***************************************************************************)
\* Agents in the population (BoidsCount is 200 in the source).
BoidsCount == 3
\* Entries a node's bucket holds (capacity is 16 in the source); small, so
\* that a population of BoidsCount overflows a bucket and forces Subdivide.
capacity == 1
\* Frames of the loop of run() that the model follows.
MaxTicks == 2
\* Sub = 2^SubBits sub-units make one world unit.
SubBits == 4

Sub == 2 ^ SubBits

(***************************************************************************)
(* Program constants.                                                      *)
(***************************************************************************)
WindowWidth == 1440
WindowHeight == 900
\* MovementSystem{maxSpeed: 1}, in world units.
MovementMaxSpeed == 1
\* The initial SteeringSystem, in tenths: 0.9, 1.0, 1.2, 75, 1.0, 4.
InitCohesionFactor == 9
InitAlignmentFactor == 10
InitSeparationFactor == 12
InitNeighborhoodRange == 750
InitMaxForce == 10
InitMaxSpeed == 40
\* adjustFactor 0.1, adjustRange 1.0, adjustSpeed 0.1, in tenths.
adjustFactor == 1
adjustRange == 10
adjustSpeed == 1
\* current.Acceleration.Divide(3)
SteeringDivisor == 3

Tenth == 10

\* A parameter in tenths as a length in sub-units.
ToSub(tenths) == (tenths * Sub) \div Tenth

W == WindowWidth * Sub
H == WindowHeight * Sub

Agents == 1 .. BoidsCount

(***************************************************************************)
(* boids/vector (Vector2D).  The package is not among the sources; it is   *)
(* modelled from the specification's section 4.1.  A scalar k is given as  *)
(* the fraction num/den.                                                   *)
(***************************************************************************)
Vec(x, y) == [X |-> x, Y |-> y, NaN |-> FALSE]
NaNVec == [X |-> 0, Y |-> 0, NaN |-> TRUE]
Zero == Vec(0, 0)

\* Integer quotient rounded toward zero (b > 0).
Trunc(a, b) == IF a >= 0 THEN a \div b ELSE -((-a) \div b)

RECURSIVE Bisect(_, _, _)
Bisect(n, lo, hi) ==
    IF lo >= hi THEN lo
    ELSE LET mid == (lo + hi + 1) \div 2
         IN IF mid * mid <= n THEN Bisect(n, mid, hi) ELSE Bisect(n, lo, mid - 1)

\* The integer square root.
Isqrt(n) == Bisect(n, 0, 46340)

Add(v, w) == IF v.NaN \/ w.NaN THEN NaNVec ELSE Vec(v.X + w.X, v.Y + w.Y)

Subtract(v, w) == IF v.NaN \/ w.NaN THEN NaNVec ELSE Vec(v.X - w.X, v.Y - w.Y)

Multiply(v, num, den) ==
    IF v.NaN THEN NaNVec ELSE Vec(Trunc(v.X * num, den), Trunc(v.Y * num, den))

\* Division by k = 0 is undefined: the float64 quotient is not finite.
Divide(v, num, den) ==
    IF v.NaN \/ num = 0 THEN NaNVec
    ELSE Vec(Trunc(v.X * den, num), Trunc(v.Y * den, num))

Magnitude(v) == Isqrt(v.X * v.X + v.Y * v.Y)

\* Normalize, then scale to m: undefined (0/0) for the zero vector.
SetMagnitude(v, m) ==
    IF v.NaN \/ (v.X = 0 /\ v.Y = 0) THEN NaNVec
    ELSE LET mag == Magnitude(v)
         IN Vec(Trunc(v.X * m, mag), Trunc(v.Y * m, mag))

\* Scale down only if the magnitude exceeds max.
Limit(v, max) ==
    IF v.NaN THEN v
    ELSE IF v.X * v.X + v.Y * v.Y > max * max THEN SetMagnitude(v, max) ELSE v

Distance(v, w) == Magnitude(Subtract(v, w))

(***************************************************************************)
(* Rectangle: Center, Width and Height (the full extents).                 *)
(***************************************************************************)
Rectangle(center, width, height) ==
    [Center |-> center, Width |-> width, Height |-> height]

Contains(r, point) ==
    /\ ~point.NaN
    /\ ~r.Center.NaN
    /\ point.X >= r.Center.X - r.Width \div 2
    /\ point.X <= r.Center.X + r.Width \div 2
    /\ point.Y >= r.Center.Y - r.Height \div 2
    /\ point.Y <= r.Center.Y + r.Height \div 2

\* Intersects with >= and <= for > and <: rectangles that only touch are
\* taken not to intersect.
IntersectsStrictly(r, rangeRec) ==
    \/ rangeRec.Center.NaN
    \/ r.Center.NaN
    \/ ~ \/ rangeRec.Center.X - rangeRec.Width \div 2 >= r.Center.X + r.Width \div 2
         \/ rangeRec.Center.X + rangeRec.Width \div 2 <= r.Center.X - r.Width \div 2
         \/ rangeRec.Center.Y - rangeRec.Height \div 2 >= r.Center.Y + r.Height \div 2
         \/ rangeRec.Center.Y + rangeRec.Height \div 2 <= r.Center.Y - r.Height \div 2

\* Every comparison with a NaN is false, so the negated disjunction is true.
Intersects(r, rangeRec) ==
    \/ rangeRec.Center.NaN
    \/ r.Center.NaN
    \/ ~ \/ rangeRec.Center.X - rangeRec.Width \div 2 > r.Center.X + r.Width \div 2
         \/ rangeRec.Center.X + rangeRec.Width \div 2 < r.Center.X - r.Width \div 2
         \/ rangeRec.Center.Y - rangeRec.Height \div 2 > r.Center.Y + r.Height \div 2
         \/ rangeRec.Center.Y + rangeRec.Height \div 2 < r.Center.Y - r.Height \div 2

(***************************************************************************)
(* Quadtree nodes and quadtreePool.  Slots is the backing array of the     *)
(* Components slice (capacity entries, 0 for nil) and Len its length.      *)
(* The memory m threaded through the operations is the pool with the       *)
(* counts of the Get and Put calls made on it.                             *)
(***************************************************************************)
Nil == <<>>

\* quadtreePool.New: &Quadtree{Components: make([]*MovementComponent, 0, capacity)}
NewNode ==
    [Boundary |-> Rectangle(Zero, 0, 0),
     Slots |-> [k \in 1 .. capacity |-> 0],
     Len |-> 0,
     Divided |-> FALSE,
     NW |-> Nil, NE |-> Nil, SW |-> Nil, SE |-> Nil]

Components(qt) == SubSeq(qt.Slots, 1, qt.Len)

RemoveAt(s, k) == SubSeq(s, 1, k - 1) \o SubSeq(s, k + 1, Len(s))

\* quadtreePool.Get(): an arbitrary pooled item, or New() when the pool is
\* empty or chooses to be treated as empty (sel = 0).
PoolGet(m, sel) ==
    IF sel = 0 \/ m.items = <<>>
    THEN [node |-> NewNode, m |-> [m EXCEPT !.gets = @ + 1]]
    ELSE LET k == IF sel > Len(m.items) THEN Len(m.items) ELSE sel
         IN [node |-> m.items[k],
             m |-> [m EXCEPT !.items = RemoveAt(@, k), !.gets = @ + 1]]

PoolPut(m, node) == [m EXCEPT !.items = Append(@, node), !.puts = @ + 1]

NewQuadtree(m, boundary, sel) ==
    LET g == PoolGet(m, sel)
    IN [qt |-> [g.node EXCEPT !.Boundary = boundary], m |-> g.m]

\* ClearChild with the recursive Clear forgotten: the child is Put as it is.
ClearChildPutOnly(child, m) ==
    IF child = Nil THEN m ELSE PoolPut(m, child)

RECURSIVE Clear(_, _)
\* qt.X.Clear(); quadtreePool.Put(qt.X) of a child that is not nil.
ClearChild(child, m) ==
    IF child = Nil THEN m
    ELSE LET r == Clear(child, m) IN PoolPut(r.m, r.qt)

\* EmptyBucket with the cut to length 0 (line 84) forgotten.
EmptyBucketKeepLength(qt) ==
    [qt EXCEPT !.Slots = [k \in 1 .. capacity |-> IF k <= qt.Len THEN 0 ELSE qt.Slots[k]]]

\* EmptyBucket with the loop that sets the entries to nil forgotten.
EmptyBucketLengthOnly(qt) == [qt EXCEPT !.Len = 0]

\* Lines 81-84: every entry of the slice set to nil, then the slice cut to
\* length 0 (its backing array is kept).
EmptyBucket(qt) ==
    [qt EXCEPT !.Slots = [k \in 1 .. capacity |-> IF k <= qt.Len THEN 0 ELSE qt.Slots[k]],
               !.Len = 0]

Clear(qt, m) ==
    [qt |-> [EmptyBucket(qt) EXCEPT !.Divided = FALSE,
                                    !.NW = Nil, !.NE = Nil, !.SW = Nil, !.SE = Nil],
     m |-> ClearChild(qt.SE, ClearChild(qt.SW, ClearChild(qt.NE, ClearChild(qt.NW, m))))]

\* r.qt with its child link `which` set to NewQuadtree(rect).
WithChild(r, which, rect, sel) ==
    LET g == NewQuadtree(r.m, rect, sel)
    IN [qt |-> [r.qt EXCEPT ![which] = g.qt], m |-> g.m]

SetDivided(r) == [qt |-> [r.qt EXCEPT !.Divided = TRUE], m |-> r.m]

\* Subdivide with the children a quarter of the parent's width and height
\* (w/2 and h/2 passed for w and h).
SubdivideQuarters(qt, m, sel) ==
    LET x == qt.Boundary.Center.X
        y == qt.Boundary.Center.Y
        w == qt.Boundary.Width \div 2
        h == qt.Boundary.Height \div 2
    IN SetDivided(
         WithChild(
           WithChild(
             WithChild(
               WithChild([qt |-> qt, m |-> m],
                         "NW", Rectangle(Vec(x - w \div 2, y - h \div 2), w \div 2, h \div 2), sel),
               "NE", Rectangle(Vec(x + w \div 2, y - h \div 2), w \div 2, h \div 2), sel),
             "SW", Rectangle(Vec(x - w \div 2, y + h \div 2), w \div 2, h \div 2), sel),
           "SE", Rectangle(Vec(x + w \div 2, y + h \div 2), w \div 2, h \div 2), sel))

Subdivide(qt, m, sel) ==
    LET x == qt.Boundary.Center.X
        y == qt.Boundary.Center.Y
        w == qt.Boundary.Width \div 2
        h == qt.Boundary.Height \div 2
    IN SetDivided(
         WithChild(
           WithChild(
             WithChild(
               WithChild([qt |-> qt, m |-> m],
                         "NW", Rectangle(Vec(x - w \div 2, y - h \div 2), w, h), sel),
               "NE", Rectangle(Vec(x + w \div 2, y - h \div 2), w, h), sel),
             "SW", Rectangle(Vec(x - w \div 2, y + h \div 2), w, h), sel),
           "SE", Rectangle(Vec(x + w \div 2, y + h \div 2), w, h), sel))

RECURSIVE Insert(_, _, _, _, _)
\* The call on the child `which` of parent: the parent with the child as the
\* call left it, the memory, what the call returned, and how many calls of
\* Insert were nested at the deepest, the call on the parent counted.
InChild(parent, m, which, component, position, sel) ==
    LET r == Insert(parent[which], m, component, position, sel)
    IN [qt |-> [parent EXCEPT ![which] = r.qt], m |-> r.m, ok |-> r.ok,
        depth |-> r.depth + 1]

\* The result n of a call made after calls that nested d deep.
Deepest(d, n) == [n EXCEPT !.depth = IF d > @ THEN d ELSE @]

\* The result of two calls, both made.
Either(r, n) ==
    [qt |-> n.qt, m |-> n.m, ok |-> r.ok \/ n.ok,
     depth |-> IF r.depth > n.depth THEN r.depth ELSE n.depth]

\* OrElse with | for ||: the call on the next child is made whatever the
\* calls before it returned.
OrElseAlways(r, which, component, position, sel) ==
    Either(r, InChild(r.qt, r.m, which, component, position, sel))

\* r || qt.which.Insert(component): the call is made only if r.ok is false.
OrElse(r, which, component, position, sel) ==
    IF r.ok THEN r
    ELSE Deepest(r.depth, InChild(r.qt, r.m, which, component, position, sel))

\* InChildren with NE tried before NW.
InChildrenNEFirst(d, component, position, sel) ==
    OrElse(
      OrElse(
        OrElse(InChild(d.qt, d.m, "NE", component, position, sel),
               "NW", component, position, sel),
        "SW", component, position, sel),
      "SE", component, position, sel)

\* Line 135, on the node d.qt (divided) with the memory d.m.
InChildren(d, component, position, sel) ==
    OrElse(
      OrElse(
        OrElse(InChild(d.qt, d.m, "NW", component, position, sel),
               "NE", component, position, sel),
        "SW", component, position, sel),
      "SE", component, position, sel)

\* Insert with len(qt.Components) <= capacity for < (line 126): a full
\* bucket takes one more entry.
InsertOverfull(qt, m, component, position, sel) ==
    IF ~Contains(qt.Boundary, position)
    THEN [qt |-> qt, m |-> m, ok |-> FALSE, depth |-> 1]
    ELSE IF qt.Len <= capacity
    THEN [qt |-> [qt EXCEPT !.Slots = [k \in 1 .. qt.Len + 1 |->
                                          IF k <= qt.Len THEN qt.Slots[k] ELSE component],
                            !.Len = @ + 1],
          m |-> m, ok |-> TRUE, depth |-> 1]
    ELSE InChildren(IF qt.Divided THEN [qt |-> qt, m |-> m] ELSE Subdivide(qt, m, sel),
                    component, position, sel)

\* Insert with the test of lines 122-124 forgotten: a position outside the
\* boundary is stored as well.
InsertUnchecked(qt, m, component, position, sel) ==
    IF qt.Len < capacity
    THEN [qt |-> [qt EXCEPT !.Slots[qt.Len + 1] = component, !.Len = @ + 1],
          m |-> m, ok |-> TRUE, depth |-> 1]
    ELSE InChildren(IF qt.Divided THEN [qt |-> qt, m |-> m] ELSE Subdivide(qt, m, sel),
                    component, position, sel)

\* Insert of &movementComponents[component], whose Position is position:
\* the node and the memory after the call, the bool it returns, and the
\* depth its recursion reached.
Insert(qt, m, component, position, sel) ==
    IF ~Contains(qt.Boundary, position)
    THEN [qt |-> qt, m |-> m, ok |-> FALSE, depth |-> 1]
    ELSE IF qt.Len < capacity
    THEN [qt |-> [qt EXCEPT !.Slots[qt.Len + 1] = component, !.Len = @ + 1],
          m |-> m, ok |-> TRUE, depth |-> 1]
    ELSE InChildren(IF qt.Divided THEN [qt |-> qt, m |-> m] ELSE Subdivide(qt, m, sel),
                    component, position, sel)

\* The bucket entries of s whose Position (read through the pointer, in mc)
\* lies in rangeRec, appended to found.
RECURSIVE Scan(_, _, _, _)
Scan(s, rangeRec, found, mc) ==
    IF s = <<>> THEN found
    ELSE Scan(Tail(s), rangeRec,
              IF Contains(rangeRec, mc[Head(s)].Position)
              THEN Append(found, Head(s)) ELSE found,
              mc)

RECURSIVE Query(_, _, _, _)
Query(qt, rangeRec, foundComponents, mc) ==
    IF ~Intersects(qt.Boundary, rangeRec) THEN foundComponents
    ELSE LET f0 == Scan(Components(qt), rangeRec, foundComponents, mc)
         IN IF qt.Divided
            THEN LET f1 == Query(qt.NW, rangeRec, f0, mc)
                     f2 == Query(qt.NE, rangeRec, f1, mc)
                     f3 == Query(qt.SW, rangeRec, f2, mc)
                 IN Query(qt.SE, rangeRec, f3, mc)
            ELSE f0

(***************************************************************************)
(* SteeringSystem.Update, one iteration of its loop (one agent i), and     *)
(* MovementSystem.Update.  bs is the SteeringSystem, mc the array          *)
(* movementComponents.                                                     *)
(***************************************************************************)
IsZero(v) == ~v.NaN /\ v.X = 0 /\ v.Y = 0

NoSums ==
    [alignmentSteering |-> Zero, cohesionSteering |-> Zero,
     separationSteering |-> Zero, neighborCount |-> 0, zeroDivide |-> FALSE]

\* The loop over the neighbours.  zeroDivide records that diff.Divide(d) was
\* called with d = 0.
RECURSIVE Accumulate(_, _, _, _)
Accumulate(neighbours, i, mc, sums) ==
    IF neighbours = <<>> THEN sums
    ELSE LET other == Head(neighbours)
         IN IF other = i THEN Accumulate(Tail(neighbours), i, mc, sums)
            ELSE LET d == Distance(mc[i].Position, mc[other].Position)
                     diff == Divide(Subtract(mc[i].Position, mc[other].Position), d, Sub)
                 IN Accumulate(Tail(neighbours), i, mc,
                        [alignmentSteering |-> Add(sums.alignmentSteering, mc[other].Velocity),
                         cohesionSteering |-> Add(sums.cohesionSteering, mc[other].Position),
                         separationSteering |-> Add(sums.separationSteering, diff),
                         neighborCount |-> sums.neighborCount + 1,
                         zeroDivide |-> sums.zeroDivide \/ d = 0])

\* The three rules of an agent with neighborCount > 0: the new Acceleration,
\* the three weighted steering vectors added into it (lines 237-243), and
\* the SetMagnitude call sites (by source line) reached with a zero vector.
Rules(current, sums, bs) ==
    LET n == sums.neighborCount
        al1 == Divide(sums.alignmentSteering, n, 1)
        al2 == SetMagnitude(al1, ToSub(bs.maxSpeed))
        al3 == Subtract(al2, current.Velocity)
        al4 == Limit(al3, ToSub(bs.maxForce))
        co1 == Divide(sums.cohesionSteering, n, 1)
        co2 == Subtract(co1, current.Position)
        co3 == SetMagnitude(co2, ToSub(bs.maxSpeed))
        co4 == Subtract(co3, current.Velocity)
        co5 == Limit(co4, ToSub(bs.maxForce))
        se1 == Divide(sums.separationSteering, n, 1)
        se2 == SetMagnitude(se1, ToSub(bs.maxSpeed))
        se3 == Subtract(se2, current.Velocity)
        se4 == SetMagnitude(se3, ToSub(bs.maxForce))
        alignment == Multiply(al4, bs.alignmentFactor, Tenth)
        cohesion == Multiply(co5, bs.cohesionFactor, Tenth)
        separation == Multiply(se4, bs.separationFactor, Tenth)
        sum == Add(Add(Add(current.Acceleration, alignment), cohesion), separation)
    IN [Acceleration |-> Divide(sum, SteeringDivisor, 1),
        alignment |-> alignment, cohesion |-> cohesion, separation |-> separation,
        zeroMagnitude |-> {site \in {222, 228, 233, 235} :
                              \/ site = 222 /\ IsZero(al1)
                              \/ site = 228 /\ IsZero(co2)
                              \/ site = 233 /\ IsZero(se1)
                              \/ site = 235 /\ IsZero(se3)}]

\* Steered with the test neighborCount > 0 forgotten.
SteeredUnguarded(current, sums, bs) ==
    [current EXCEPT !.Acceleration = Rules(current, sums, bs).Acceleration]

\* Lines 219-245: the rules are applied only if neighborCount > 0.
Steered(current, sums, bs) ==
    IF sums.neighborCount > 0
    THEN [current EXCEPT !.Acceleration = Rules(current, sums, bs).Acceleration]
    ELSE current

\* The bounce policy switched on.
bounceOn == TRUE

\* const bounce = false (line 250): the wrap policy is the active one.
bounce == FALSE
\* boundaryMargin 50.0 in world units, boundaryForce 0.2 in tenths.
boundaryMargin == 50
boundaryForce == 2

\* The boundary policy: the four ifs run in sequence, on the fields of a NaN
\* vector every comparison is false.
Boundary(current) ==
    LET p == current.Position
        v == current.Velocity
    IN IF bounce
       THEN IF p.NaN \/ v.NaN THEN current
            ELSE LET vx1 == IF p.X < boundaryMargin * Sub THEN v.X + ToSub(boundaryForce) ELSE v.X
                     vx2 == IF p.X > W - boundaryMargin * Sub THEN vx1 - ToSub(boundaryForce) ELSE vx1
                     vy1 == IF p.Y < boundaryMargin * Sub THEN v.Y + ToSub(boundaryForce) ELSE v.Y
                     vy2 == IF p.Y > H - boundaryMargin * Sub THEN vy1 - ToSub(boundaryForce) ELSE vy1
                 IN [current EXCEPT !.Velocity = Vec(vx2, vy2)]
       ELSE IF p.NaN THEN current
            ELSE LET x1 == IF p.X < 0 THEN W ELSE p.X
                     x2 == IF x1 > W THEN 0 ELSE x1
                     y1 == IF p.Y < 0 THEN H ELSE p.Y
                     y2 == IF y1 > H THEN 0 ELSE y1
                 IN [current EXCEPT !.Position = Vec(x2, y2)]

\* The body of the loop of SteeringSystem.Update for agent i: the array
\* after it, and what the step did (the Query result, the neighbour count,
\* the undefined vector operations it called).
SteeringStep(mc, i, qt, bs) ==
    LET current == mc[i]
        rangeRec == Rectangle(current.Position, ToSub(bs.neighborhoodRange),
                              ToSub(bs.neighborhoodRange))
        neighbours == Query(qt, rangeRec, <<>>, mc)
        sums == Accumulate(neighbours, i, mc, NoSums)
        rules == Rules(current, sums, bs)
    IN [mc |-> [mc EXCEPT ![i] = Boundary(Steered(current, sums, bs))],
        did |-> [agent |-> i,
                 neighbours |-> neighbours,
                 neighborCount |-> sums.neighborCount,
                 before |-> current,
                 zeroDivide |-> sums.zeroDivide,
                 zeroMagnitude |-> IF sums.neighborCount > 0
                                   THEN rules.zeroMagnitude ELSE {}]]

\* The agents whose Position Query reads (line 144): the bucket entries of
\* every node whose boundary intersects the range.
RECURSIVE Visited(_, _)
Visited(qt, rangeRec) ==
    IF ~Intersects(qt.Boundary, rangeRec) THEN {}
    ELSE {qt.Slots[k] : k \in 1 .. qt.Len}
         \cup IF qt.Divided
              THEN Visited(qt.NW, rangeRec) \cup Visited(qt.NE, rangeRec)
                   \cup Visited(qt.SW, rangeRec) \cup Visited(qt.SE, rangeRec)
              ELSE {}

\* The neighbours of agent i that the loop of lines 200-217 counts: the
\* agents of the Query result other than i.
Others(mc, i, qt, bs) ==
    LET neighbours == Query(qt, Rectangle(mc[i].Position, ToSub(bs.neighborhoodRange),
                                          ToSub(bs.neighborhoodRange)), <<>>, mc)
    IN {neighbours[k] : k \in 1 .. Len(neighbours)} \ {i}

\* The fields of the array that the steering step of agent i reads: its own
\* Position (line 193), the Position of the scanned entries, the Position
\* and Velocity of the neighbours (lines 207-212), with a neighbour its own
\* Velocity and Acceleration (lines 223-244), and with bounce its Velocity.
Reads(mc, i, qt, bs) ==
    {<<i, "Position">>}
    \cup {<<c, "Position">> :
             c \in Visited(qt, Rectangle(mc[i].Position, ToSub(bs.neighborhoodRange),
                                         ToSub(bs.neighborhoodRange)))}
    \cup {<<c, f>> : c \in Others(mc, i, qt, bs), f \in {"Position", "Velocity"}}
    \cup {<<c, f>> : c \in {n \in {i} : Others(mc, i, qt, bs) # {}},
                     f \in {"Velocity", "Acceleration"}}
    \cup {<<c, "Velocity">> : c \in {n \in {i} : bounce}}

\* The fields that the steering step of agent i writes: its Acceleration
\* with a neighbour (lines 241-244), and what the boundary policy assigns
\* (lines 252-292).
Writes(mc, i, qt, bs) ==
    {<<c, "Acceleration">> : c \in {n \in {i} : Others(mc, i, qt, bs) # {}}}
    \cup {<<i, f>> : f \in {g \in {"Position", "Velocity"} : Boundary(mc[i])[g] # mc[i][g]}}

\* MovementUpdate with m.Acceleration.Multiply(0) forgotten.
MovementUpdateNoReset(mc) ==
    [i \in Agents |->
        [Position |-> Add(mc[i].Position, mc[i].Velocity),
         Velocity |-> Limit(Add(mc[i].Velocity, mc[i].Acceleration), MovementMaxSpeed * Sub),
         Acceleration |-> mc[i].Acceleration]]

\* MovementSystem.Update: the whole loop.
MovementUpdate(mc) ==
    [i \in Agents |->
        LET position == Add(mc[i].Position, mc[i].Velocity)
            velocity == Limit(Add(mc[i].Velocity, mc[i].Acceleration), MovementMaxSpeed * Sub)
        IN [Position |-> position,
            Velocity |-> velocity,
            Acceleration |-> Multiply(mc[i].Acceleration, 0, 1)]]

(***************************************************************************)
(* run(): the state of the program and the frame loop.                     *)
(***************************************************************************)
VARIABLES
    movementComponents, \* the array: Position, Velocity, Acceleration of each agent
    steeringSystem,     \* the SteeringSystem of run(), its fields in tenths
    qt,                 \* the root held by the local qt of run(), Nil before the first
    quadtreePool,       \* the pool: items, and the counts gets and puts of its calls
    pc,                 \* the place of run() in the loop body
    idx,                \* the index of the running for loop
    tick,               \* completed iterations of the frame loop
    order,              \* the agents passed to Insert since NewQuadtree, in call order
    insertOk,           \* what each of those Insert calls returned
    did,                \* what the last steering step did
    found,              \* the last Query of the index test: its range and result
    log,                \* the calls made on the index and the systems, in order
    steps,              \* the steering steps of a stage whose steps run concurrently
    stageStart          \* the array as it was when the first of those steps began

vars == <<movementComponents, steeringSystem, qt, quadtreePool, pc, idx, tick,
          order, insertOk, did, found, log, steps, stageStart>>

\* boundary of run(): the whole window.
boundary == Rectangle(Vec(W \div 2, H \div 2), W, H)

InitSteeringSystem ==
    [cohesionFactor |-> InitCohesionFactor,
     alignmentFactor |-> InitAlignmentFactor,
     separationFactor |-> InitSeparationFactor,
     neighborhoodRange |-> InitNeighborhoodRange,
     maxForce |-> InitMaxForce,
     maxSpeed |-> InitMaxSpeed]

KeyNames == {"W", "S", "A", "D", "Q", "E", "Z", "X", "R", "F"}

\* One if / else if pair of the runtime parameter adjustments.
Nudge(value, up, down, step, pressed) ==
    IF up \in pressed THEN value + step
    ELSE IF down \in pressed THEN value - step
    ELSE value

\* The runtime parameter adjustments of one frame; pressed is the set of
\* keys for which win.JustPressed is true.
Adjusted(bs, pressed) ==
    [cohesionFactor |-> Nudge(bs.cohesionFactor, "W", "S", adjustFactor, pressed),
     alignmentFactor |-> Nudge(bs.alignmentFactor, "A", "D", adjustFactor, pressed),
     separationFactor |-> Nudge(bs.separationFactor, "Q", "E", adjustFactor, pressed),
     neighborhoodRange |-> Nudge(bs.neighborhoodRange, "Z", "X", adjustRange, pressed),
     maxForce |-> bs.maxForce,
     maxSpeed |-> Nudge(bs.maxSpeed, "R", "F", adjustSpeed, pressed)]

\* NextStage with movementSystem.Update called before steeringSystem.Update.
NextStageMoveFirst(stage) ==
    CASE stage = "keys" -> "new"
      [] stage = "new" -> "insert"
      [] stage = "insert" -> "move"
      [] stage = "move" -> "steer"
      [] stage = "steer" -> "clear"
      [] stage = "clear" -> "keys"

\* The order of the stages of the loop body of run().
NextStage(stage) ==
    CASE stage = "keys" -> "new"
      [] stage = "new" -> "insert"
      [] stage = "insert" -> "steer"
      [] stage = "steer" -> "move"
      [] stage = "move" -> "clear"
      [] stage = "clear" -> "keys"

NoStep ==
    [agent |-> 0, neighbours |-> <<>>, neighborCount |-> 0,
     before |-> [Position |-> Zero, Velocity |-> Zero, Acceleration |-> Zero],
     zeroDivide |-> FALSE, zeroMagnitude |-> {}]

NoQuery == [rangeRec |-> Rectangle(Zero, 0, 0), result |-> <<>>, asked |-> FALSE]

NoPool == [items |-> <<>>, gets |-> 0, puts |-> 0]

\* No steering step of the stage has begun.
NoSteps ==
    [i \in Agents |->
        [state |-> "idle", did |-> NoStep,
         slot |-> [Position |-> Zero, Velocity |-> Zero, Acceleration |-> Zero]]]

NoArray == [i \in Agents |-> [Position |-> Zero, Velocity |-> Zero, Acceleration |-> Zero]]

\* The choices of quadtreePool.Get for the calls of one operation: New, or
\* the pooled item last Put (Sels), or also the item Put first (AnySel).
Sels == {0, Len(quadtreePool.items)}
AnySel == Sels \cup {n \in {1} : n <= Len(quadtreePool.items)}

(***************************************************************************)
(* The populations the frame loop starts from: positions in the window     *)
(* (rand.Float64() * WindowWidth), speeds below 1.                         *)
(***************************************************************************)
StartPositions ==
    {Vec(Sub \div 2, H \div 2),             \* half a unit from the left edge
     Vec(W \div 2, H \div 2),               \* the centre of the window
     Vec(W \div 2 + 20 * Sub, H \div 2),    \* 20 units right of the centre
     Vec(W \div 2 - 20 * Sub, H \div 2)}    \* 20 units left of the centre

\* Speed 0.75, heading left or right: all agents left, or every second
\* agent right (two neighbours of opposite velocity cancel).
StartVelocities ==
    {[i \in Agents |-> Vec(-12, 0)],
     [i \in Agents |-> IF i % 2 = 1 THEN Vec(-12, 0) ELSE Vec(12, 0)]}

\* The sets of keys a frame of the loop is given.
FrameKeys == {{}, {"X", "F", "W", "S"}}

Init ==
    /\ \E position \in [Agents -> StartPositions], velocity \in StartVelocities :
          movementComponents =
              [i \in Agents |-> [Position |-> position[i], Velocity |-> velocity[i],
                                 Acceleration |-> Zero]]
    /\ steeringSystem = InitSteeringSystem
    /\ qt = Nil
    /\ quadtreePool = NoPool
    /\ pc = "keys"
    /\ idx = 0
    /\ tick = 0
    /\ order = <<>>
    /\ insertOk = <<>>
    /\ did = NoStep
    /\ found = NoQuery
    /\ log = <<>>
    /\ steps = NoSteps
    /\ stageStart = NoArray

\* Lines 345-398: the parameter adjustments (drawing reads the state only).
Keys ==
    /\ pc = "keys"
    /\ tick < MaxTicks
    /\ \E pressed \in FrameKeys : steeringSystem' = Adjusted(steeringSystem, pressed)
    /\ pc' = NextStage(pc)
    /\ UNCHANGED <<steps, stageStart>>
    /\ UNCHANGED <<movementComponents, qt, quadtreePool, idx, tick, order, insertOk,
                   did, found, log>>

\* Line 400: qt := NewQuadtree(boundary).
Build ==
    /\ pc = "new"
    /\ \E sel \in Sels :
          LET r == NewQuadtree(quadtreePool, boundary, sel)
          IN qt' = r.qt /\ quadtreePool' = r.m
    /\ pc' = NextStage(pc)
    /\ idx' = 1
    /\ order' = <<>>
    /\ insertOk' = <<>>
    /\ log' = Append(log, "NewQuadtree")
    /\ UNCHANGED <<steps, stageStart>>
    /\ UNCHANGED <<movementComponents, steeringSystem, tick, did, found>>

\* Lines 402-404: one iteration, qt.Insert(&movementComponents[i]); the
\* returned bool is dropped.
InsertNext ==
    /\ pc = "insert"
    /\ \E sel \in Sels :
          LET r == Insert(qt, quadtreePool, idx, movementComponents[idx].Position, sel)
          IN /\ qt' = r.qt
             /\ quadtreePool' = r.m
             /\ insertOk' = Append(insertOk, r.ok)
    /\ order' = Append(order, idx)
    /\ log' = Append(log, "Insert")
    /\ IF idx < BoidsCount
       THEN idx' = idx + 1 /\ pc' = pc
       ELSE idx' = 1 /\ pc' = NextStage(pc)
    /\ UNCHANGED <<steps, stageStart>>
    /\ UNCHANGED <<movementComponents, steeringSystem, tick, did, found>>

\* Line 406: one iteration of the loop of steeringSystem.Update.
SteerNext ==
    /\ pc = "steer"
    /\ LET r == SteeringStep(movementComponents, idx, qt, steeringSystem)
       IN movementComponents' = r.mc /\ did' = r.did
    /\ log' = Append(log, "Query")
    /\ IF idx < BoidsCount
       THEN idx' = idx + 1 /\ pc' = pc
       ELSE idx' = 1 /\ pc' = NextStage(pc)
    /\ UNCHANGED <<steps, stageStart>>
    /\ UNCHANGED <<steeringSystem, qt, quadtreePool, tick, order, insertOk, found>>

\* Line 407: movementSystem.Update.
Move ==
    /\ pc = "move"
    /\ movementComponents' = MovementUpdate(movementComponents)
    /\ log' = Append(log, "Integrate")
    /\ pc' = NextStage(pc)
    /\ UNCHANGED <<steps, stageStart>>
    /\ UNCHANGED <<steeringSystem, qt, quadtreePool, idx, tick, order, insertOk,
                   did, found>>

\* Line 409: qt.Clear(); the root itself is not Put, the loop body ends and
\* the local qt is dropped.
ClearTree ==
    /\ pc = "clear"
    /\ LET r == Clear(qt, quadtreePool)
       IN qt' = r.qt /\ quadtreePool' = r.m
    /\ log' = Append(log, "Clear")
    /\ pc' = NextStage(pc)
    /\ tick' = tick + 1
    /\ UNCHANGED <<steps, stageStart>>
    /\ UNCHANGED <<movementComponents, steeringSystem, idx, order, insertOk, did, found>>

Next == Keys \/ Build \/ InsertNext \/ SteerNext \/ Move \/ ClearTree

Spec == Init /\ [][Next]_vars

(***************************************************************************)
(* The index on its own: a root from NewQuadtree(boundary), Insert of the  *)
(* agents, Query with a rectangle of QueryRects, Clear, and the same       *)
(* again out of the pooled nodes.  The agents are inserted in index order  *)
(* and the populations are all the assignments of TreePositions to the     *)
(* agents, so every sequence of positions, repetitions included, is        *)
(* inserted: Insert and Query never look at which agent an entry is.       *)
(***************************************************************************)
TreePositions ==
    {Vec(0, 0),                                  \* a corner of the window
     Vec(W, H),                                  \* the opposite corner
     Vec(W \div 2, H \div 2),                    \* the centre: on the edges of all four quadrants
     Vec(W \div 4, H \div 4),                    \* the centre of NW
     Vec(W \div 2, H \div 4)}                    \* on the edge shared by NW and NE

QueryRects ==
    {boundary,
     Rectangle(Vec(W \div 2, H \div 2), 75 * Sub, 75 * Sub),
     Rectangle(Vec(0, 0), 0, 0),
     Rectangle(Vec(W \div 4, H \div 4), W \div 2, H \div 2),
     Rectangle(Vec(W \div 4 + 10 * Sub, H \div 4 - 10 * Sub), 30 * Sub, 30 * Sub),
     Rectangle(Vec(W + 100 * Sub, H), 100 * Sub, H)}

InitTree ==
    /\ \E position \in [Agents -> TreePositions] :
          movementComponents =
              [i \in Agents |-> [Position |-> position[i], Velocity |-> Zero,
                                 Acceleration |-> Zero]]
    /\ steeringSystem = InitSteeringSystem
    /\ qt = Nil
    /\ quadtreePool = NoPool
    /\ pc = "idle"
    /\ idx = 0
    /\ tick = 0
    /\ order = <<>>
    /\ insertOk = <<>>
    /\ did = NoStep
    /\ found = NoQuery
    /\ log = <<>>
    /\ steps = NoSteps
    /\ stageStart = NoArray

Inserted == {order[k] : k \in 1 .. Len(order)}

TreeBuild ==
    /\ pc = "idle"
    /\ tick < MaxTicks
    /\ \E sel \in AnySel :
          LET r == NewQuadtree(quadtreePool, boundary, sel)
          IN qt' = r.qt /\ quadtreePool' = r.m
    /\ pc' = "filling"
    /\ order' = <<>>
    /\ insertOk' = <<>>
    /\ found' = NoQuery
    /\ UNCHANGED <<steps, stageStart>>
    /\ UNCHANGED <<movementComponents, steeringSystem, idx, tick, did, log>>

TreeInsert ==
    /\ pc = "filling"
    /\ Inserted # Agents
    /\ \E sel \in AnySel :
          LET component == Len(order) + 1
              r == Insert(qt, quadtreePool, component,
                          movementComponents[component].Position, sel)
          IN /\ qt' = r.qt
             /\ quadtreePool' = r.m
             /\ insertOk' = Append(insertOk, r.ok)
             /\ order' = Append(order, component)
    /\ found' = NoQuery
    /\ UNCHANGED <<steps, stageStart>>
    /\ UNCHANGED <<movementComponents, steeringSystem, pc, idx, tick, did, log>>

TreeQuery ==
    /\ pc = "filling"
    /\ Inserted = Agents
    /\ ~found.asked
    /\ \E rangeRec \in QueryRects :
          found' = [rangeRec |-> rangeRec,
                    result |-> Query(qt, rangeRec, <<>>, movementComponents),
                    asked |-> TRUE]
    /\ UNCHANGED <<steps, stageStart>>
    /\ UNCHANGED <<movementComponents, steeringSystem, qt, quadtreePool, pc, idx, tick,
                   order, insertOk, did, log>>

\* The Clear of the first index: the second is built out of its nodes.
TreeClear ==
    /\ pc = "filling"
    /\ Inserted = Agents
    /\ tick = 0
    /\ LET r == Clear(qt, quadtreePool)
       IN qt' = r.qt /\ quadtreePool' = r.m
    /\ pc' = "idle"
    /\ tick' = tick + 1
    /\ found' = NoQuery
    /\ UNCHANGED <<steps, stageStart>>
    /\ UNCHANGED <<movementComponents, steeringSystem, idx, order, insertOk, did, log>>

NextTree == TreeBuild \/ TreeInsert \/ TreeQuery \/ TreeClear

SpecTree == InitTree /\ [][NextTree]_vars

(***************************************************************************)
(* The runtime parameter adjustments on their own, frame after frame: no   *)
(* other statement of the loop body writes the SteeringSystem.             *)
(***************************************************************************)
\* Steps a parameter is followed above its initial value and below zero.
AdjustCap == 1

\* No key, one key, or the two keys of one parameter together.
KeyChoices ==
    {{}} \cup {{k} : k \in KeyNames}
         \cup {{"W", "S"}, {"A", "D"}, {"Q", "E"}, {"Z", "X"}, {"R", "F"}}

Followed(bs) ==
    /\ bs.cohesionFactor \in InitCohesionFactor - AdjustCap * adjustFactor
                             .. InitCohesionFactor + AdjustCap * adjustFactor
    /\ bs.alignmentFactor \in InitAlignmentFactor - AdjustCap * adjustFactor
                              .. InitAlignmentFactor + AdjustCap * adjustFactor
    /\ bs.separationFactor \in InitSeparationFactor - AdjustCap * adjustFactor
                               .. InitSeparationFactor + AdjustCap * adjustFactor
    /\ bs.neighborhoodRange \in 0 - AdjustCap * adjustRange
                                .. InitNeighborhoodRange + AdjustCap * adjustRange
    /\ bs.maxSpeed \in 0 - AdjustCap * adjustSpeed
                       .. InitMaxSpeed + AdjustCap * adjustSpeed

InitKeys ==
    /\ movementComponents =
           [i \in Agents |-> [Position |-> Vec(W \div 2, H \div 2),
                              Velocity |-> Vec(-12, 0), Acceleration |-> Zero]]
    /\ steeringSystem = InitSteeringSystem
    /\ qt = Nil
    /\ quadtreePool = NoPool
    /\ pc = "keys"
    /\ idx = 0
    /\ tick = 0
    /\ order = <<>>
    /\ insertOk = <<>>
    /\ did = NoStep
    /\ found = NoQuery
    /\ log = <<>>
    /\ steps = NoSteps
    /\ stageStart = NoArray

KeysFrame ==
    /\ \E pressed \in KeyChoices :
          /\ Followed(Adjusted(steeringSystem, pressed))
          /\ steeringSystem' = Adjusted(steeringSystem, pressed)
    /\ UNCHANGED <<steps, stageStart>>
    /\ UNCHANGED <<movementComponents, qt, quadtreePool, pc, idx, tick, order, insertOk,
                   did, found, log>>

SpecKeys == InitKeys /\ [][KeysFrame]_vars

(***************************************************************************)
(* The steering stage with its per-agent steps run concurrently: the       *)
(* index is built as in run(), then every step reads (its Query, its       *)
(* neighbours' fields, its own) and later writes its own slots, and the    *)
(* reads and writes of different agents interleave in every way.           *)
(***************************************************************************)
\* Positions when a tick begins: a quarter unit left of the window (where
\* the integrator takes an agent from 0.5 at speed 0.75), and two places
\* near the left edge, within half a neighborhoodRange of each other.
SteerPositions ==
    {Vec(0 - Sub \div 4, H \div 2),
     Vec(Sub + Sub \div 4, H \div 2),
     Vec(10 * Sub, H \div 2)}

InitSteer ==
    /\ \E position \in [Agents -> SteerPositions], velocity \in StartVelocities :
          movementComponents =
              [i \in Agents |-> [Position |-> position[i], Velocity |-> velocity[i],
                                 Acceleration |-> Zero]]
    /\ steeringSystem = InitSteeringSystem
    /\ qt = Nil
    /\ quadtreePool = NoPool
    /\ pc = "new"
    /\ idx = 0
    /\ tick = 0
    /\ order = <<>>
    /\ insertOk = <<>>
    /\ did = NoStep
    /\ found = NoQuery
    /\ log = <<>>
    /\ steps = NoSteps
    /\ stageStart = NoArray

\* Lines 186-245 of the step of agent i, up to its writes: what it will
\* store is computed from what the array holds now.
SteerRead ==
    /\ pc = "steer"
    /\ \E i \in Agents :
          /\ steps[i].state = "idle"
          /\ LET r == SteeringStep(movementComponents, i, qt, steeringSystem)
             IN steps' = [steps EXCEPT ![i] =
                             [state |-> "read", did |-> r.did, slot |-> r.mc[i]]]
    /\ stageStart' = IF \A j \in Agents : steps[j].state = "idle"
                     THEN movementComponents ELSE stageStart
    /\ UNCHANGED <<movementComponents, steeringSystem, qt, quadtreePool, pc, idx, tick,
                   order, insertOk, did, found, log>>

\* The writes of the step of agent i (lines 241-244 and 273-291); the stage
\* ends with the last of them.
SteerWrite ==
    /\ pc = "steer"
    /\ \E i \in Agents :
          /\ steps[i].state = "read"
          /\ movementComponents' = [movementComponents EXCEPT ![i] = steps[i].slot]
          /\ steps' = [steps EXCEPT ![i].state = "done"]
          /\ did' = steps[i].did
          /\ pc' = IF \A j \in Agents \ {i} : steps[j].state = "done"
                   THEN NextStage(pc) ELSE pc
    /\ UNCHANGED <<steeringSystem, qt, quadtreePool, idx, tick, order, insertOk,
                   found, log, stageStart>>

NextSteer == Build \/ InsertNext \/ SteerRead \/ SteerWrite

SpecSteer == InitSteer /\ [][NextSteer]_vars

(***************************************************************************)
(* The properties.                                                         *)
(***************************************************************************)
ToSet(s) == {s[k] : k \in 1 .. Len(s)}

InWindow(p) == ~p.NaN /\ 0 <= p.X /\ p.X <= W /\ 0 <= p.Y /\ p.Y <= H

\* Between two iterations of the frame loop, at least one completed.
BetweenTicks == pc = "keys" /\ tick > 0

\* The state right after the steering step of agent did.agent.
JustSteered ==
    /\ did.agent # 0
    /\ \/ pc = "steer" /\ idx = did.agent + 1
       \/ pc = "move" /\ did.agent = BoidsCount

\* The Query of the last steering step returned no agent but the agent itself.
NoOthers == \A k \in 1 .. Len(did.neighbours) : did.neighbours[k] = did.agent

\* C1: with the wrap policy, after any number of completed ticks every
\* agent's position satisfies 0 <= x <= WindowWidth and 0 <= y <= WindowHeight.
C1_Containment ==
    BetweenTicks => \A i \in Agents : InWindow(movementComponents[i].Position)

\* C2: when the steering stage begins, every Insert call of the build has
\* returned true (the loop has no fatal error state to stop in instead).
C2_NoSilentDrop ==
    pc = "steer" => \A k \in 1 .. Len(insertOk) : insertOk[k]

\* C3: for a population inside the root boundary, whatever the order of the
\* inserted positions and whether or not they overflow a bucket, and for any
\* query rectangle, the set Query returns is the set of the inserted agents
\* whose position lies in the rectangle.
C3_QueryIsBruteForce ==
    pc = "filling" =>
        \A rangeRec \in QueryRects :
            ToSet(Query(qt, rangeRec, <<>>, movementComponents))
                = {c \in Inserted : Contains(rangeRec, movementComponents[c].Position)}

\* A Query on a subdivided tree that returned some but not all agents, one
\* of them out of a child's bucket.
C3_Witness ==
    /\ found.asked
    /\ qt.Divided
    /\ ToSet(found.result) # Agents
    /\ \E c \in ToSet(found.result) : c \notin ToSet(Components(qt))

\* The calls of one frame, in the order build, steer, integrate, reset.
FrameCalls ==
    <<"NewQuadtree">> \o [k \in 1 .. BoidsCount |-> "Insert"]
                      \o [k \in 1 .. BoidsCount |-> "Query"]
                      \o <<"Integrate", "Clear">>

\* C4: every tick runs NewQuadtree, the N inserts, the N steering steps (one
\* Query each), the integrator and Clear in this order, tick after tick:
\* inserts and queries never interleave.
C4_StageOrder ==
    \A k \in 1 .. Len(log) : log[k] = FrameCalls[((k - 1) % Len(FrameCalls)) + 1]

\* The second tick has made its first insert, after the Clear of the first.
C4_Witness == Len(log) = Len(FrameCalls) + 2 /\ log[Len(log)] = "Insert"

\* A node as Clear must leave it: no entry, not even in the backing array,
\* not divided, no child.
IsReset(n) ==
    /\ n.Len = 0
    /\ \A k \in 1 .. capacity : n.Slots[k] = 0
    /\ ~n.Divided
    /\ n.NW = Nil /\ n.NE = Nil /\ n.SW = Nil /\ n.SE = Nil

\* C5: after Clear the root has an empty bucket, Divided = false and no
\* children, and every node in the pool, in every state, has an empty bucket,
\* Divided = false, no child link and no agent reference.
C5_ClearedAndPooledReset ==
    /\ BetweenTicks => IsReset(qt)
    /\ \A k \in 1 .. Len(quadtreePool.items) : IsReset(quadtreePool.items[k])

\* After a tick whose tree was subdivided twice: eight nodes are pooled.
C5_Witness ==
    /\ BetweenTicks
    /\ Len(quadtreePool.items) >= 8
    /\ \E k \in 1 .. Len(insertOk) : insertOk[k]

\* C6: between ticks every node taken from the pool (the root, the children)
\* has been put back: no node is acquired and not released.
C6_AllReleased == pc = "keys" => quadtreePool.gets = quadtreePool.puts

\* The index built from the agents of s, in this order, out of nodes that
\* were never pooled.
RECURSIVE FreshInserts(_, _, _)
FreshInserts(r, s, mc) ==
    IF s = <<>> THEN r
    ELSE FreshInserts(Insert(r.qt, r.m, Head(s), mc[Head(s)].Position, 0), Tail(s), mc)

FreshTree(s, mc) == FreshInserts(NewQuadtree(NoPool, boundary, 0), s, mc).qt

\* C7: an index built after Clear, its nodes recycled through the pool,
\* answers every query rectangle with the same set as the index built from
\* the same positions in the same order out of fresh nodes.
C7_RecycledAsFresh ==
    pc = "filling" =>
        \A rangeRec \in QueryRects :
            ToSet(Query(qt, rangeRec, <<>>, movementComponents))
                = ToSet(Query(FreshTree(order, movementComponents), rangeRec, <<>>,
                              movementComponents))

\* A Query on a subdivided index of the second build, some of whose nodes
\* came out of the pool.
C7_Witness ==
    /\ found.asked
    /\ found.result # <<>>
    /\ tick >= 1
    /\ qt.Divided
    /\ Len(quadtreePool.items) < quadtreePool.puts

\* C8: if the Query for agent i returns no agent other than i, the steering
\* step leaves the acceleration of agent i as it was before the step.
C8_NoNeighbourNoChange ==
    JustSteered /\ NoOthers =>
        movementComponents[did.agent].Acceleration = did.before.Acceleration

\* The step of an agent that Query found alone, another agent being in the index.
C8_Witness ==
    /\ JustSteered
    /\ did.neighbours = <<did.agent>>
    /\ \E k \in 1 .. Len(insertOk) : k # did.agent /\ insertOk[k]

\* C9: the steering step never calls Divide with a zero divisor (a neighbour
\* at distance 0 is skipped).
C9_NoZeroDivide == ~did.zeroDivide

\* C10: after any sequence of runtime parameter adjustments maxSpeed,
\* neighborhoodRange and maxForce are strictly positive.
C10_ParametersPositive ==
    /\ steeringSystem.maxSpeed > 0
    /\ steeringSystem.neighborhoodRange > 0
    /\ steeringSystem.maxForce > 0

RECURSIVE SteerInOrder(_, _, _, _)
SteerInOrder(mc, i, tree, bs) ==
    IF i > BoidsCount THEN mc
    ELSE SteerInOrder(SteeringStep(mc, i, tree, bs).mc, i + 1, tree, bs)

\* C12: with the wrap policy and the index built before the stage, the array
\* after the steering stage is the same for every interleaving of the N
\* steps as for the steps run one after the other in index order, and during
\* the stage no step writes a field that the step of another agent reads.
C12_OrderIndependent ==
    /\ pc = "move" =>
          movementComponents = SteerInOrder(stageStart, 1, qt, steeringSystem)
    /\ pc = "steer" =>
          LET writes == [i \in Agents |-> Writes(movementComponents, i, qt, steeringSystem)]
              reads == [j \in Agents |-> Reads(movementComponents, j, qt, steeringSystem)]
          IN \A i, j \in Agents : i # j => writes[i] \cap reads[j] = {}

\* A finished stage in which the step of agent 1 was the last to write, an
\* agent was wrapped and the acceleration of an agent was written.
C12_Witness ==
    /\ pc = "move"
    /\ did.agent = 1
    /\ \E i \in Agents : movementComponents[i].Position # stageStart[i].Position
    /\ \E i \in Agents : movementComponents[i].Acceleration # stageStart[i].Acceleration

Abs(n) == IF n < 0 THEN 0 - n ELSE n

\* p and q are finite and differ by at most range in x and in y.
WithinRange(p, q, range) ==
    /\ ~p.NaN /\ ~q.NaN
    /\ Abs(q.X - p.X) <= range
    /\ Abs(q.Y - p.Y) <= range

\* C13: in the steering step of agent i, an indexed agent j # i is counted
\* as a neighbour exactly when |x_j - x_i| <= neighborhoodRange and
\* |y_j - y_i| <= neighborhoodRange.
C13_NeighbourWindow ==
    JustSteered =>
        \A j \in Agents \ {did.agent} :
            insertOk[j] =>
                (j \in ToSet(did.neighbours)
                    <=> WithinRange(did.before.Position, movementComponents[j].Position,
                                    ToSub(steeringSystem.neighborhoodRange)))

\* Every node of the tree n holds at most capacity entries and is divided
\* only with exactly capacity entries.
RECURSIVE WellFilled(_)
WellFilled(n) ==
    /\ n.Len <= capacity
    /\ n.Divided =>
          /\ n.Len = capacity
          /\ WellFilled(n.NW) /\ WellFilled(n.NE) /\ WellFilled(n.SW) /\ WellFilled(n.SE)

\* C14: in every reachable state of the tree, every node's bucket holds at
\* most capacity entries, and a node is divided only if its own bucket
\* holds exactly capacity entries.
C14_BucketBound ==
    /\ pc = "filling" => WellFilled(qt)
    /\ \A k \in 1 .. Len(quadtreePool.items) : WellFilled(quadtreePool.items[k])

\* A tree whose root and one child of the root are both full and divided.
C14_Witness ==
    /\ pc = "filling"
    /\ qt.Divided
    /\ qt.Len = capacity
    /\ \E which \in {"NW", "NE", "SW", "SE"} :
          qt[which].Divided /\ qt[which].Len = capacity

ChildNames == <<"NW", "NE", "SW", "SE">>

\* The agents stored in the tree n, in any bucket of it.
RECURSIVE EntriesOf(_)
EntriesOf(n) ==
    IF n = Nil THEN {}
    ELSE ToSet(Components(n))
         \cup IF n.Divided
              THEN EntriesOf(n.NW) \cup EntriesOf(n.NE) \cup EntriesOf(n.SW) \cup EntriesOf(n.SE)
              ELSE {}

\* What C15 says of an Insert of component at position that took the node
\* before, full and containing the position, to the node after: the bucket
\* is as it was, and the entry went into the subtree of the first child in
\* the order NW, NE, SW, SE whose boundary contains the position, and into
\* no other; the same again of that child, if it was full.
RECURSIVE FullNodeRule(_, _, _, _)
FullNodeRule(before, after, component, position) ==
    /\ Components(after) = Components(before)
    /\ after.Divided
    /\ \E k \in 1 .. 4 :
          /\ Contains(after[ChildNames[k]].Boundary, position)
          /\ \A j \in 1 .. k - 1 : ~Contains(after[ChildNames[j]].Boundary, position)
          /\ EntriesOf(after[ChildNames[k]])
                = EntriesOf(before[ChildNames[k]]) \cup {component}
          /\ \A j \in (1 .. 4) \ {k} :
                EntriesOf(after[ChildNames[j]]) = EntriesOf(before[ChildNames[j]])
          /\ before.Divided /\ before[ChildNames[k]].Len = capacity =>
                FullNodeRule(before[ChildNames[k]], after[ChildNames[k]], component, position)

\* C15: an Insert into a node whose bucket is already full leaves that
\* node's own bucket unchanged and places the new entry in the subtree of
\* exactly one child, the first of NW, NE, SW, SE whose boundary contains
\* the position.
C15_FullNodeInsert ==
    [][pc = "filling" /\ Len(order') = Len(order) + 1 /\ qt.Len = capacity
         /\ Contains(qt.Boundary, movementComponents[order'[Len(order')]].Position)
       => /\ order'[Len(order')] \notin EntriesOf(qt)
          /\ FullNodeRule(qt, qt', order'[Len(order')],
                          movementComponents[order'[Len(order')]].Position)]_vars

\* The last Insert met a full root and a full NW child: the agent, on an
\* edge that NW and NE share, is in the subtree of NW and not in its bucket.
C15_Witness ==
    /\ pc = "filling"
    /\ order # <<>>
    /\ qt.Divided
    /\ qt.NW.Divided
    /\ Contains(qt.NE.Boundary, movementComponents[order[Len(order)]].Position)
    /\ order[Len(order)] \in EntriesOf(qt.NW) \ ToSet(Components(qt.NW))

\* The nodes of the tree n.
RECURSIVE NodesOf(_)
NodesOf(n) ==
    IF n = Nil THEN {}
    ELSE {n} \cup IF n.Divided
                  THEN NodesOf(n.NW) \cup NodesOf(n.NE) \cup NodesOf(n.SW) \cup NodesOf(n.SE)
                  ELSE {}

\* Positions an Insert is tried with: those of TreePositions, positions just
\* outside the window, off the quadrant edges, and a non-finite one.
ProbePositions ==
    TreePositions
    \cup {Vec(0 - 1, 0), Vec(W, H + 1), Vec(W \div 2 + 1, H \div 2 - 1),
          Vec(W \div 4, H \div 2), NaNVec}

\* C16: Insert on a node returns true if and only if the position lies
\* inside that node's boundary, at every depth and whatever the node's fill
\* state: the Insert calls made returned so, and so does an Insert of any
\* probe position on any node of the tree.
C16_InsertIffContained ==
    pc = "filling" =>
        /\ \A k \in 1 .. Len(insertOk) :
              insertOk[k] <=> Contains(boundary, movementComponents[order[k]].Position)
        /\ \A n \in NodesOf(qt), position \in ProbePositions :
              Insert(n, quadtreePool, 1, position, 0).ok <=> Contains(n.Boundary, position)

\* All agents are in, the last of them in a grandchild of the root.
C16_Witness ==
    /\ pc = "filling"
    /\ Len(insertOk) = BoidsCount
    /\ insertOk[BoidsCount]
    /\ \E which \in {"NW", "NE", "SW", "SE"} :
          /\ qt.Divided
          /\ qt[which].Divided
          /\ order[BoidsCount] \in EntriesOf(qt[which]) \ ToSet(Components(qt[which]))

\* The rules of the last steering step, from the agent as it was before the
\* step and the neighbours its Query returned.
LastRules ==
    Rules(did.before,
          Accumulate(did.neighbours, did.agent,
                     [movementComponents EXCEPT ![did.agent] = did.before], NoSums),
          steeringSystem)

\* C17: for an agent with at least one neighbour, in every state of the
\* frame loop the steering step leaves the acceleration equal to its value
\* before the step plus one third of the sum of the weighted alignment,
\* cohesion and separation vectors.
C17_AddsOneThird ==
    JustSteered /\ did.neighborCount > 0 =>
        movementComponents[did.agent].Acceleration
            = Add(did.before.Acceleration,
                  Divide(Add(Add(LastRules.alignment, LastRules.cohesion),
                             LastRules.separation),
                         SteeringDivisor, 1))

\* A step with a neighbour, in the second tick, that left a finite
\* acceleration other than zero.
C17_Witness ==
    /\ JustSteered
    /\ tick >= 1
    /\ did.neighborCount > 0
    /\ ~movementComponents[did.agent].Acceleration.NaN
    /\ movementComponents[did.agent].Acceleration # Zero

\* C18: the steering step never calls SetMagnitude on a zero-length vector,
\* at none of its four call sites (lines 222, 228, 233 and 235); stated of
\* the steps that divided by no zero distance, so that a violation owes
\* nothing to the case of C9.
C18_NoZeroSetMagnitude == ~did.zeroDivide => did.zeroMagnitude = {}

\* How many bucket entries of the tree n are the agent c.
RECURSIVE Occurrences(_, _)
Occurrences(n, c) ==
    IF n = Nil THEN 0
    ELSE Cardinality({k \in 1 .. n.Len : n.Slots[k] = c})
         + IF n.Divided
           THEN Occurrences(n.NW, c) + Occurrences(n.NE, c)
                + Occurrences(n.SW, c) + Occurrences(n.SE, c)
           ELSE 0

\* C19: after any sequence of Insert calls every agent whose Insert returned
\* true is stored in exactly one bucket of the whole tree, in a node whose
\* boundary contains the agent's position, and Query returns no agent twice.
C19_StoredOnce ==
    pc = "filling" =>
        /\ \A k \in 1 .. Len(order) :
              insertOk[k] =>
                 /\ Occurrences(qt, order[k]) = 1
                 /\ \E n \in NodesOf(qt) :
                       /\ order[k] \in ToSet(Components(n))
                       /\ Contains(n.Boundary, movementComponents[order[k]].Position)
        /\ \A rangeRec \in QueryRects :
              LET result == Query(qt, rangeRec, <<>>, movementComponents)
              IN Cardinality(ToSet(result)) = Len(result)

\* A Query that returned an agent placed at the window centre, on the edges
\* of all four quadrants, out of the bucket of NW.
C19_Witness ==
    /\ pc = "filling"
    /\ found.asked
    /\ qt.Divided
    /\ \E c \in ToSet(found.result) :
          /\ movementComponents[c].Position = Vec(W \div 2, H \div 2)
          /\ c \in ToSet(Components(qt.NW))

Largest(a, b, c, d) ==
    CHOOSE x \in {a, b, c, d} : \A y \in {a, b, c, d} : y <= x

\* One level up from a child: still 0 if the child's subtree lacks the agent.
Below(d) == IF d = 0 THEN 0 ELSE d + 1

\* The depth of the node of the tree n that stores the agent c (the root's
\* is 1), 0 if none does.
RECURSIVE DepthOf(_, _)
DepthOf(n, c) ==
    IF n = Nil THEN 0
    ELSE IF c \in ToSet(Components(n)) THEN 1
    ELSE IF n.Divided
    THEN Below(Largest(DepthOf(n.NW, c), DepthOf(n.NE, c),
                       DepthOf(n.SW, c), DepthOf(n.SE, c)))
    ELSE 0

\* C20: every Insert call terminates, also with more than capacity agents
\* at one position, and the depth of its recursion is at most the number of
\* agents inserted before it divided by capacity, plus one: so it is for the
\* agents stored, and for an Insert of any probe position on the tree as it is.
C20_DepthBound ==
    pc = "filling" =>
        /\ \A k \in 1 .. Len(order) :
              insertOk[k] => DepthOf(qt, order[k]) <= (k - 1) \div capacity + 1
        /\ \A position \in ProbePositions :
              Insert(qt, quadtreePool, 1, position, 0).depth
                  <= Len(order) \div capacity + 1

\* All agents at one position: the last of them is stored as deep as the
\* bound allows, below the root.
C20_Witness ==
    /\ pc = "filling"
    /\ Len(order) = BoidsCount
    /\ \A i \in Agents : movementComponents[i].Position = movementComponents[1].Position
    /\ DepthOf(qt, BoidsCount) = (BoidsCount - 1) \div capacity + 1
    /\ DepthOf(qt, BoidsCount) > 1

====
